---- MODULE Spec2Model ----
(***************************************************************************)
(* whats-blocking.py: which blocklists block which domains.                *)
(*                                                                         *)
(* A domain is a string.  A blocklist id is a string too; the ids are      *)
(* modelled by the integers 1, 2, 3 standing for three ids in their        *)
(* lexicographic order, so that Python's sorted() on ids is the numeric    *)
(* order here.                                                             *)
(*                                                                         *)
(* Two specifications:                                                     *)
(*   SpecExtract  json_to_domdata applied to every bounded log             *)
(*   Spec         main() from the call of update_domdata_store on: the     *)
(*                store is read, reconciled, rewritten, the report is      *)
(*                computed, and the same input is run a second time        *)
(***************************************************************************)
EXTENDS Integers, Sequences, FiniteSets, TLC

VARIABLES
    data,        \* get_file_data: the list of log entries, data["data"]
    domdata,     \* DomData: domain -> set of blocklist ids
    current,     \* what get_file_data returns for the input of this behaviour
    file,        \* the store file "<name>.domdata.json"
    jsondata,    \* update_domdata_store: the loaded store, domain -> list of ids
    json_data,   \* update_domdata_store: the mapping about to be dumped
    out,         \* the drift warnings printed by update_domdata_store
    solos,       \* print_domdata: blist -> doms
    combos,      \* print_domdata: sorted tuple of blists -> doms
    overlap,     \* print_domdata: blist -> list of levels
    level_hist,  \* print_domdata: blist -> (level -> count)
    blistdata,   \* print_domdata: blist -> doms
    pc,          \* position in main()
    run          \* "first" or "second" invocation of the program

vars == <<data, domdata, current, file, jsondata, json_data, out, solos, combos,
          overlap, level_hist, blistdata, pc, run>>

----------------------------------------------------------------------------
(* Bounds *)

MaxEntries == 2
MaxReasons == 2

Domains == {"a", "b"}
Ids == {1, 2, 3}

----------------------------------------------------------------------------
(* Python values *)

\* {} : the empty dict
EmptyDict == [k \in {} |-> {}]

\* d[k] of a defaultdict: the default when k is absent
Get(d, k, default) == IF k \in DOMAIN d THEN d[k] ELSE default

\* d[k] = v
Put(d, k, v) == [x \in DOMAIN d \cup {k} |-> IF x = k THEN v ELSE d[x]]

\* set(lst)
ListToSet(lst) == {lst[i] : i \in DOMAIN lst}

\* list(s): the elements of s once each, in the order the set's hashing gives
Lists(s) == {l \in [1..Cardinality(s) -> s] : ListToSet(l) = s}

RECURSIVE sorted(_)
\* sorted(s): ascending
sorted(s) ==
    IF s = {} THEN <<>>
    ELSE LET m == CHOOSE x \in s : \A y \in s : x <= y
         IN <<m>> \o sorted(s \ {m})

RECURSIVE Keys(_)
\* the order in which "for k in d" visits the keys of a dict with key set s
Keys(s) ==
    IF s = {} THEN <<>>
    ELSE LET k == CHOOSE x \in s : TRUE
         IN <<k>> \o Keys(s \ {k})

SeqsUpTo(S, n) == UNION {[1..k -> S] : k \in 0..n}

\* a store as a DomData: every list read back with set()
AsMapping(js) == [d \in DOMAIN js |-> ListToSet(js[d])]

----------------------------------------------------------------------------
(* json_to_domdata *)

Reason == [id : Ids]
LogEntry == [domain : Domains, reasons : SeqsUpTo(Reason, MaxReasons)]
Logs == SeqsUpTo(LogEntry, MaxEntries)

\* {r["id"] for r in entry["reasons"]}
reason_ids(entry) == {entry.reasons[k].id : k \in DOMAIN entry.reasons}

\* one iteration of the loop: output[entry["domain"]] = blocklists
json_to_domdata_step(output, entry) ==
    Put(output, entry.domain, reason_ids(entry))

RECURSIVE json_to_domdata_loop(_, _, _)
json_to_domdata_loop(entries, i, output) ==
    IF i > Len(entries) THEN output
    ELSE json_to_domdata_loop(entries, i + 1,
                              json_to_domdata_step(output, entries[i]))

json_to_domdata(entries) == json_to_domdata_loop(entries, 1, EmptyDict)

\* every DomData get_file_data can return on a bounded log
DomDatas == {json_to_domdata(l) : l \in Logs}

----------------------------------------------------------------------------
(* The store file *)

NoFile == [exists |-> FALSE, complete |-> FALSE, content |-> EmptyDict]

\* a store this program wrote earlier: json.dump of list(set) per domain
StoreContents ==
    UNION {[D -> UNION {Lists(s) : s \in SUBSET Ids}] : D \in SUBSET Domains}

Stores ==
    {NoFile} \cup
    {[exists |-> TRUE, complete |-> TRUE, content |-> c] : c \in StoreContents}

----------------------------------------------------------------------------
(* update_domdata_store: reading and reconciling the store *)

blocklists_changed_sorted(stored, blists) == stored # sorted(blists)

\* set(jsondata[dom]) != domdata[dom]
blocklists_changed(stored, blists) == ListToSet(stored) # blists

\* the three lines printed for a domain whose blocklists changed
drift_warning(dom, js, dd) ==
    [dom |-> dom,
     Was |-> sorted(dd[dom]),
     Now |-> sorted(ListToSet(js[dom]))]

load_step_store_wins(dd, js, dom) == Put(dd, dom, ListToSet(js[dom]))

\* the body of "for dom in jsondata", as it changes domdata
load_step(dd, js, dom) ==
    IF dom \in DOMAIN dd THEN dd
    ELSE Put(dd, dom, ListToSet(js[dom]))

\* the body of "for dom in jsondata", as it prints
load_print(printed, dd, js, dom) ==
    IF dom \in DOMAIN dd /\ blocklists_changed(js[dom], dd[dom])
    THEN printed \cup {drift_warning(dom, js, dd)}
    ELSE printed

RECURSIVE load_loop(_, _, _, _)
load_loop(doms, js, dd, printed) ==
    IF doms = <<>> THEN [domdata |-> dd, out |-> printed]
    ELSE load_loop(Tail(doms), js,
                   load_step(dd, js, Head(doms)),
                   load_print(printed, dd, js, Head(doms)))

\* try: open(fname, "r") ... except FileNotFoundError
update_domdata_store_load ==
    /\ pc = "extracted"
    /\ file.exists => file.complete
    /\ IF file.exists
       THEN LET r == load_loop(Keys(DOMAIN file.content), file.content,
                               domdata, {})
            IN /\ jsondata' = file.content
               /\ domdata' = r.domdata
               /\ out' = r.out
       ELSE /\ jsondata' = EmptyDict
            /\ domdata' = domdata
            /\ out' = {}
    /\ pc' = "loaded"
    /\ UNCHANGED <<data, current, file, json_data, solos, combos, overlap,
                   level_hist, blistdata, run>>

----------------------------------------------------------------------------
(* update_domdata_store: rewriting the store *)

\* the dicts "json_data[dom] = list(domdata[dom])" can build
JsonDatas(dd) ==
    {jd \in [DOMAIN dd -> UNION {Lists(dd[d]) : d \in DOMAIN dd}] :
        \A d \in DOMAIN dd : ListToSet(jd[d]) = dd[d]}

\* open(fname, "w") truncates the file; then json_data is built
update_domdata_store_open ==
    /\ pc = "loaded"
    /\ file' = [exists |-> TRUE, complete |-> FALSE, content |-> EmptyDict]
    /\ json_data' \in JsonDatas(domdata)
    /\ pc' = "opened"
    /\ UNCHANGED <<data, domdata, current, jsondata, out, solos, combos,
                   overlap, level_hist, blistdata, run>>

\* json.dump(json_data, fo, indent=2), the file is closed, domdata returned
update_domdata_store_dump ==
    /\ pc = "opened"
    /\ file' = [exists |-> TRUE, complete |-> TRUE, content |-> json_data]
    /\ pc' = "written"
    /\ UNCHANGED <<data, domdata, current, jsondata, json_data, out, solos,
                   combos, overlap, level_hist, blistdata, run>>

\* the run is interrupted or fails between the open and the end of the dump:
\* what reached the file is the entries of some of the domains
Interrupt ==
    /\ pc = "opened"
    /\ \E K \in SUBSET DOMAIN json_data :
          file' = [exists |-> TRUE, complete |-> FALSE,
                   content |-> [d \in K |-> json_data[d]]]
    /\ pc' = "crashed"
    /\ UNCHANGED <<data, domdata, current, jsondata, json_data, out, solos,
                   combos, overlap, level_hist, blistdata, run>>

----------------------------------------------------------------------------
(* domdata_to_blistdata *)

blistdata_add_first_only(bl, dd, dom) ==
    IF dd[dom] = {} THEN bl
    ELSE LET blist == CHOOSE b \in dd[dom] : \A c \in dd[dom] : b <= c
         IN Put(bl, blist, Get(bl, blist, {}) \cup {dom})

\* for blist in domdata[dom]: blistdata[blist].add(dom)
blistdata_add(bl, dd, dom) ==
    [blist \in DOMAIN bl \cup dd[dom] |->
        IF blist \in dd[dom] THEN Get(bl, blist, {}) \cup {dom} ELSE bl[blist]]

RECURSIVE domdata_to_blistdata_loop(_, _, _)
domdata_to_blistdata_loop(doms, dd, bl) ==
    IF doms = <<>> THEN bl
    ELSE domdata_to_blistdata_loop(Tail(doms), dd,
                                   blistdata_add(bl, dd, Head(doms)))

domdata_to_blistdata(dd) ==
    domdata_to_blistdata_loop(Keys(DOMAIN dd), dd, EmptyDict)

----------------------------------------------------------------------------
(* print_domdata *)

overlap_append_when_shared(ov, dd, dom) ==
    [blist \in DOMAIN ov \cup {b \in dd[dom] : Cardinality(dd[dom]) > 1} |->
        IF blist \in dd[dom]
        THEN Append(Get(ov, blist, <<>>), Cardinality(dd[dom]))
        ELSE ov[blist]]

\* for blist in domdata[dom]: overlap[blist].append(len(domdata[dom]))
overlap_append(ov, dd, dom) ==
    [blist \in DOMAIN ov \cup dd[dom] |->
        IF blist \in dd[dom]
        THEN Append(Get(ov, blist, <<>>), Cardinality(dd[dom]))
        ELSE ov[blist]]

\* if len(domdata[dom]) == 1: solos[list(domdata[dom])[0]].add(dom)
solos_add(sol, dd, dom) ==
    IF Cardinality(dd[dom]) = 1
    THEN LET blist == CHOOSE b \in dd[dom] : TRUE
         IN Put(sol, blist, Get(sol, blist, {}) \cup {dom})
    ELSE sol

RECURSIVE first_pass(_, _, _, _)
\* the first "for dom in domdata"
first_pass(doms, dd, sol, ov) ==
    IF doms = <<>> THEN [solos |-> sol, overlap |-> ov]
    ELSE first_pass(Tail(doms), dd,
                    solos_add(sol, dd, Head(doms)),
                    overlap_append(ov, dd, Head(doms)))

combos_add_no_skip(cmb, sol, dd, dom) ==
    LET blists == sorted(dd[dom])
    IN Put(cmb, blists, Get(cmb, blists, {}) \cup {dom})

\* if solos.keys() & domdata[dom]: continue
\* combos[tuple(sorted(domdata[dom]))].add(dom)
combos_add(cmb, sol, dd, dom) ==
    IF DOMAIN sol \cap dd[dom] # {} THEN cmb
    ELSE LET blists == sorted(dd[dom])
         IN Put(cmb, blists, Get(cmb, blists, {}) \cup {dom})

RECURSIVE second_pass(_, _, _, _)
\* the second "for dom in domdata"
second_pass(doms, dd, sol, cmb) ==
    IF doms = <<>> THEN cmb
    ELSE second_pass(Tail(doms), dd, sol,
                     combos_add(cmb, sol, dd, Head(doms)))

\* level_hist for one blist: for level in overlap[blist]: level_hist[level] += 1
level_hist_of(levels) ==
    [level \in ListToSet(levels) |->
        Cardinality({i \in DOMAIN levels : levels[i] = level})]

print_domdata ==
    /\ pc = "written"
    /\ LET p1 == first_pass(Keys(DOMAIN domdata), domdata, EmptyDict, EmptyDict)
       IN /\ solos' = p1.solos
          /\ overlap' = p1.overlap
          /\ combos' = second_pass(Keys(DOMAIN domdata), domdata, p1.solos,
                                   EmptyDict)
          /\ level_hist' = [blist \in DOMAIN p1.overlap |->
                               level_hist_of(p1.overlap[blist])]
    /\ blistdata' = domdata_to_blistdata(domdata)
    /\ pc' = "printed"
    /\ UNCHANGED <<data, domdata, current, file, jsondata, json_data, out, run>>

----------------------------------------------------------------------------
(* main *)

\* the program is started again on the same input file, the store untouched
main_again ==
    /\ pc = "printed"
    /\ run = "first"
    /\ run' = "second"
    /\ domdata' = current
    /\ jsondata' = EmptyDict
    /\ json_data' = EmptyDict
    /\ out' = {}
    /\ solos' = EmptyDict
    /\ combos' = EmptyDict
    /\ overlap' = EmptyDict
    /\ level_hist' = EmptyDict
    /\ blistdata' = EmptyDict
    /\ pc' = "extracted"
    /\ UNCHANGED <<data, current, file>>

\* get_file_data has returned; update_domdata_store is about to be called
Init ==
    /\ data = <<>>
    /\ domdata \in DomDatas
    /\ current = domdata
    /\ file \in Stores
    /\ jsondata = EmptyDict
    /\ json_data = EmptyDict
    /\ out = {}
    /\ solos = EmptyDict
    /\ combos = EmptyDict
    /\ overlap = EmptyDict
    /\ level_hist = EmptyDict
    /\ blistdata = EmptyDict
    /\ pc = "extracted"
    /\ run = "first"

Next ==
    \/ update_domdata_store_load
    \/ update_domdata_store_open
    \/ update_domdata_store_dump
    \/ Interrupt
    \/ print_domdata
    \/ main_again

Spec == Init /\ [][Next]_vars

----------------------------------------------------------------------------
(* json_to_domdata on its own *)

\* return json_to_domdata(data["data"])
get_file_data ==
    /\ pc = "start"
    /\ domdata' = json_to_domdata(data)
    /\ current' = json_to_domdata(data)
    /\ pc' = "extracted"
    /\ UNCHANGED <<data, file, jsondata, json_data, out, solos, combos,
                   overlap, level_hist, blistdata, run>>

InitExtract ==
    /\ data \in Logs
    /\ domdata = EmptyDict
    /\ current = EmptyDict
    /\ file = NoFile
    /\ jsondata = EmptyDict
    /\ json_data = EmptyDict
    /\ out = {}
    /\ solos = EmptyDict
    /\ combos = EmptyDict
    /\ overlap = EmptyDict
    /\ level_hist = EmptyDict
    /\ blistdata = EmptyDict
    /\ pc = "start"
    /\ run = "first"

NextExtract == get_file_data

SpecExtract == InitExtract /\ [][NextExtract]_vars

----------------------------------------------------------------------------
(* Properties *)

RECURSIVE SumOver(_, _)
\* the sum of g[k] for k in keys
SumOver(g, keys) ==
    IF keys = {} THEN 0
    ELSE LET k == CHOOSE x \in keys : TRUE
         IN g[k] + SumOver(g, keys \ {k})

\* the index of the first entry of a log that carries domain d
FirstIndex(entries, d) ==
    CHOOSE i \in DOMAIN entries :
        /\ entries[i].domain = d
        /\ \A j \in 1..(i - 1) : entries[j].domain # d

\* k is the ascending tuple of the ids of s
IsSortedTupleOf(k, s) ==
    /\ Len(k) = Cardinality(s)
    /\ ListToSet(k) = s
    /\ \A i \in DOMAIN k : \A j \in DOMAIN k : i < j => k[i] < k[j]

\* every domain of the mapping has a blocklist
NonEmptySets(m) == \A d \in DOMAIN m : m[d] # {}

\* the ids that are the only reason of some domain
SoloIds == {b \in Ids : \E d \in DOMAIN domdata : domdata[d] = {b}}

\* C1: json_to_domdata maps each domain of the log to the reason ids of the
\* first entry, in input order, that carries the domain; later entries for the
\* same domain change nothing.  Stated for the logs whose entries all carry a
\* reason, so that a violation owes nothing to empty reasons lists.
C1_FirstSeenWins ==
    (pc = "extracted" /\ \A i \in DOMAIN data : data[i].reasons # <<>>) =>
        /\ DOMAIN domdata = {data[i].domain : i \in DOMAIN data}
        /\ \A d \in DOMAIN domdata :
              domdata[d] = reason_ids(data[FirstIndex(data, d)])

\* C2: no entry with an empty reasons list ends up as an empty attribution
\* set: every domain of the DomData json_to_domdata returns maps to at least
\* one blocklist id.
C2_NoEmptyAttribution ==
    pc = "extracted" => \A d \in DOMAIN domdata : domdata[d] # {}

\* C3: with S the store before the run (empty when the file is missing) and C
\* the current run's mapping, update_domdata_store yields R with domains
\* domains(S) union domains(C), R[d] = C[d] for d in C and R[d] = S[d] for d
\* only in S; R is what it returns and what the store file holds afterwards.
C3_Reconciled ==
    /\ [][pc = "extracted" /\ pc' = "loaded" =>
            LET S == IF file.exists THEN AsMapping(file.content) ELSE EmptyDict
                C == domdata
                R == domdata'
            IN /\ DOMAIN R = DOMAIN S \cup DOMAIN C
               /\ \A d \in DOMAIN C : R[d] = C[d]
               /\ \A d \in DOMAIN S \ DOMAIN C : R[d] = S[d]]_vars
    /\ [][(pc = "loaded" \/ pc = "opened") => domdata' = domdata]_vars
    /\ [](pc = "written" =>
            /\ file.exists
            /\ file.complete
            /\ AsMapping(file.content) = domdata)

C3_Witness ==
    /\ pc = "written"
    /\ NonEmptySets(current)
    /\ NonEmptySets(AsMapping(jsondata))
    /\ \E d \in DOMAIN jsondata \cap DOMAIN current :
          ListToSet(jsondata[d]) # current[d]
    /\ DOMAIN jsondata \ DOMAIN current # {}

\* C4: a drift warning is printed for a domain exactly when the domain is in
\* the store and in the current run with different blocklist sets; it names
\* the domain, gives the stored set as "Was" and the current set as "Now".
\* Stated for stores and current runs in which every domain has a blocklist.
C4_DriftWarning ==
    (/\ pc = "loaded"
     /\ NonEmptySets(current)
     /\ NonEmptySets(AsMapping(jsondata))) =>
        /\ \A d \in Domains :
              (/\ d \in DOMAIN jsondata
               /\ d \in DOMAIN current
               /\ ListToSet(jsondata[d]) # current[d])
              <=> (\E w \in out : w.dom = d)
        /\ \A w \in out :
              /\ w.Was = sorted(ListToSet(jsondata[w.dom]))
              /\ w.Now = sorted(current[w.dom])

\* C5: a second run on the same input, the store untouched in between,
\* prints no drift warning and leaves in the store the mapping the first run
\* wrote.
C5_Idempotent ==
    run = "second" =>
        /\ pc \in {"loaded", "opened", "written", "printed"} => out = {}
        /\ pc \in {"written", "printed"} =>
              /\ file.complete
              /\ AsMapping(file.content) = AsMapping(jsondata)

C5_Witness ==
    /\ run = "second"
    /\ pc = "written"
    /\ DOMAIN current # {}
    /\ NonEmptySets(domdata)
    /\ DOMAIN jsondata \ DOMAIN current # {}
    /\ \E d \in DOMAIN jsondata : jsondata[d] # sorted(ListToSet(jsondata[d]))

\* C6: after the two passes every domain is either excluded because its set
\* meets the solo ids, or in exactly one combo group, the one keyed by the
\* sorted tuple of its set; never both, never neither; no key of a combo
\* group contains a solo id.
C6_Partition ==
    pc = "printed" =>
        /\ DOMAIN solos = SoloIds
        /\ \A d \in DOMAIN domdata :
              LET groups == {k \in DOMAIN combos : d \in combos[k]}
              IN IF domdata[d] \cap SoloIds # {}
                 THEN groups = {}
                 ELSE /\ Cardinality(groups) = 1
                      /\ \A k \in groups : IsSortedTupleOf(k, domdata[d])
        /\ \A k \in DOMAIN combos : ListToSet(k) \cap SoloIds = {}

C6_Witness ==
    /\ pc = "printed"
    /\ DOMAIN solos # {}
    /\ \E k \in DOMAIN combos : Len(k) >= 2 /\ combos[k] # {}

\* C7: b is in domdata[d] exactly when d is in blistdata[b], for every domain
\* d and blocklist id b; domdata_to_blistdata leaves domdata as it was.
C7_Inverse ==
    /\ [](pc = "printed" =>
            \A d \in Domains : \A b \in Ids :
                (d \in DOMAIN domdata /\ b \in domdata[d])
                <=> (b \in DOMAIN blistdata /\ d \in blistdata[b]))
    /\ [][pc = "written" /\ pc' = "printed" => domdata' = domdata]_vars

C7_Witness ==
    /\ pc = "printed"
    /\ \E b \in DOMAIN blistdata : Cardinality(blistdata[b]) >= 2
    /\ \E d \in DOMAIN domdata : Cardinality(domdata[d]) >= 2

\* C8: for every blocklist id b the counts of b's histogram add up to the
\* number of domains whose set contains b; the count at a level is the number
\* of those domains whose set has that size; every level is at least 1.
C8_HistogramConservation ==
    pc = "printed" =>
        \A b \in Ids :
            LET doms == {d \in DOMAIN domdata : b \in domdata[d]}
                h == Get(level_hist, b, EmptyDict)
            IN /\ SumOver(h, DOMAIN h) = Cardinality(doms)
               /\ \A n \in DOMAIN h :
                     /\ n >= 1
                     /\ h[n] = Cardinality({d \in doms :
                                               Cardinality(domdata[d]) = n})

C8_Witness ==
    /\ pc = "printed"
    /\ \E b \in DOMAIN level_hist : Cardinality(DOMAIN level_hist[b]) >= 2

\* C9: when no domain of the reported mapping belongs to more than one
\* blocklist, the numbers of domains per blocklist id add up to the number of
\* domains (the coverage percentages add up to 100%).  Stated for runs that
\* found the store missing or empty, so that the mapping is the current run's.
C9_CoverageSums ==
    (/\ pc = "printed"
     /\ jsondata = EmptyDict
     /\ \A d \in DOMAIN domdata : Cardinality(domdata[d]) <= 1)
    => SumOver([b \in DOMAIN blistdata |-> Cardinality(blistdata[b])],
               DOMAIN blistdata)
       = Cardinality(DOMAIN domdata)

\* C10: when the run is interrupted while the store is being written, the
\* store file holds the complete prior contents or the complete reconciled
\* contents.  Stated for runs that found a store with domains in it, every
\* domain of the store and of the current run having a blocklist.
C10_AtomicWrite ==
    (/\ pc = "crashed"
     /\ jsondata # EmptyDict
     /\ NonEmptySets(AsMapping(jsondata))
     /\ NonEmptySets(domdata)) =>
        /\ file.complete
        /\ \/ AsMapping(file.content) = AsMapping(jsondata)
           \/ AsMapping(file.content) = domdata

====
